---- MODULE Spec2Model ----
(***************************************************************************)
(* Log Analyzer (src/src/main.rs): a log file is read line by line, every  *)
(* line is parsed as a JSON object with a string field "type", and the     *)
(* byte sizes of the lines are summed per type.                            *)
(*                                                                         *)
(* A line is a sequence of characters; a character is a one-element token  *)
(* (the token "U+00E9" stands for the two-byte character e-acute).         *)
(***************************************************************************)
EXTENDS Integers, Sequences, FiniteSets, TLC

\* ------------------------------------------------------------------------
\* Bounds
\* ------------------------------------------------------------------------

\* longest file (in lines) built from FileItems
MaxLines == 3

\* the observer counts at most this many items of a line source that never
\* ends, and keeps at most MaxOut outputs; a regular file stays below both
MaxYield == MaxLines + 1
MaxOut == MaxYield + 2

\* ------------------------------------------------------------------------
\* Characters and strings
\* ------------------------------------------------------------------------

\* main.rs:15
GROUP_ID == <<"t", "y", "p", "e">>

\* number of bytes of one character in UTF-8
Utf8Width(c) == IF c = "U+00E9" THEN 2 ELSE 1

RECURSIVE str_len(_)
\* String::len(): the length of the string in bytes
str_len(s) == IF s = <<>> THEN 0 ELSE Utf8Width(Head(s)) + str_len(Tail(s))

\* ------------------------------------------------------------------------
\* serde_json::from_str::<Value>, Value::get, Value::as_str
\* ------------------------------------------------------------------------

Digits == {"0", "1", "2", "3", "4", "5", "6", "7", "8", "9"}

IsWs(c) == c \in {" ", "\t", "\r", "\n"}

ValueOf(kind, str, elems) == [kind |-> kind, str |-> str, elems |-> elems]

Null == ValueOf("Null", <<>>, <<>>)

ParseFail == [ok |-> FALSE, v |-> Null, next |-> 0]

ParseOk(v, next) == [ok |-> TRUE, v |-> v, next |-> next]

\* index of the first character at or after i that is not whitespace
SkipWs[s \in Seq(STRING), i \in Nat] ==
    IF i <= Len(s) /\ IsWs(s[i]) THEN SkipWs[s, i + 1] ELSE i

\* index of the first character at or after i that is not a digit
ScanDigits[s \in Seq(STRING), i \in Nat] ==
    IF i <= Len(s) /\ s[i] \in Digits THEN ScanDigits[s, i + 1] ELSE i

\* the character an escape sequence \c stands for
Unescape(c) ==
    CASE c = "n" -> "\n"
      [] c = "t" -> "\t"
      [] c = "r" -> "\r"
      [] OTHER -> c

\* the string whose opening quote came right before index i
ScanString[s \in Seq(STRING), i \in Nat, acc \in Seq(STRING)] ==
    IF i > Len(s) THEN ParseFail
    ELSE IF s[i] = "\"" THEN ParseOk(ValueOf("String", acc, <<>>), i + 1)
    ELSE IF s[i] = "\\" THEN
        IF i + 1 <= Len(s) /\ s[i + 1] \in {"\"", "\\", "/", "n", "t", "r"}
        THEN ScanString[s, i + 2, Append(acc, Unescape(s[i + 1]))]
        ELSE ParseFail
    ELSE IF s[i] \in {"\t", "\r", "\n"} THEN ParseFail
    ELSE ScanString[s, i + 1, Append(acc, s[i])]

\* a number: -? (0 | [1-9][0-9]*) (. [0-9]+)?
ParseNumber[s \in Seq(STRING), i \in Nat] ==
    LET j == IF i <= Len(s) /\ s[i] = "-" THEN i + 1 ELSE i
        k == IF j <= Len(s) /\ s[j] = "0" THEN j + 1 ELSE ScanDigits[s, j]
        hasDot == k <= Len(s) /\ s[k] = "."
        f == IF hasDot THEN ScanDigits[s, k + 1] ELSE k
    IN  IF k = j \/ (hasDot /\ f = k + 1)
        THEN ParseFail
        ELSE ParseOk(ValueOf("Number", <<>>, <<>>), f)

\* the literal word at index i
ParseLiteral(s, i, word, v) ==
    IF i + Len(word) - 1 <= Len(s) /\ SubSeq(s, i, i + Len(word) - 1) = word
    THEN ParseOk(v, i + Len(word))
    ELSE ParseFail

\* Map::insert: a later value for the same key replaces the earlier one;
\* later holds the members that follow the member (k, v)
MapInsert(k, v, later) ==
    IF \E n \in 1..Len(later) : later[n].key = k
    THEN later
    ELSE <<[key |-> k, val |-> v]>> \o later

\* what the parser reads at index i: "value" is one JSON value, "elems" are
\* the elements of an array and "members" the members of an object up to
\* the closing bracket; first says that nothing has been read since the
\* opening bracket
Parse[m \in STRING, s \in Seq(STRING), i \in Nat, first \in BOOLEAN] ==
    LET j == SkipWs[s, i]
    IN  IF j > Len(s) THEN ParseFail
        ELSE CASE m = "value" ->
                 CASE s[j] = "{" -> Parse["members", s, j + 1, TRUE]
                   [] s[j] = "[" -> Parse["elems", s, j + 1, TRUE]
                   [] s[j] = "\"" -> ScanString[s, j + 1, <<>>]
                   [] s[j] = "n" ->
                        ParseLiteral(s, j, <<"n", "u", "l", "l">>, Null)
                   [] s[j] = "t" ->
                        ParseLiteral(s, j, <<"t", "r", "u", "e">>,
                                     ValueOf("Bool", <<>>, <<>>))
                   [] s[j] = "f" ->
                        ParseLiteral(s, j, <<"f", "a", "l", "s", "e">>,
                                     ValueOf("Bool", <<>>, <<>>))
                   [] s[j] = "-" \/ s[j] \in Digits -> ParseNumber[s, j]
                   [] OTHER -> ParseFail
               [] m = "elems" ->
                 IF first /\ s[j] = "]"
                 THEN ParseOk(ValueOf("Array", <<>>, <<>>), j + 1)
                 ELSE LET e == Parse["value", s, j, FALSE]
                          k == SkipWs[s, e.next]
                          rest == Parse["elems", s, k + 1, FALSE]
                      IN  IF ~e.ok \/ k > Len(s) THEN ParseFail
                          ELSE IF s[k] = "]"
                          THEN ParseOk(ValueOf("Array", <<>>, <<e.v>>), k + 1)
                          ELSE IF s[k] = "," /\ rest.ok
                          THEN ParseOk(ValueOf("Array", <<>>,
                                           <<e.v>> \o rest.v.elems), rest.next)
                          ELSE ParseFail
               [] m = "members" ->
                 IF first /\ s[j] = "}"
                 THEN ParseOk(ValueOf("Object", <<>>, <<>>), j + 1)
                 ELSE IF s[j] # "\"" THEN ParseFail
                 ELSE LET key == ScanString[s, j + 1, <<>>]
                          c == SkipWs[s, key.next]
                          val == Parse["value", s, c + 1, FALSE]
                          k == SkipWs[s, val.next]
                          rest == Parse["members", s, k + 1, FALSE]
                      IN  IF ~key.ok \/ c > Len(s) \/ s[c] # ":" THEN ParseFail
                          ELSE IF ~val.ok \/ k > Len(s) THEN ParseFail
                          ELSE IF s[k] = "}"
                          THEN ParseOk(ValueOf("Object", <<>>,
                                   MapInsert(key.v.str, val.v, <<>>)), k + 1)
                          ELSE IF s[k] = "," /\ rest.ok
                          THEN ParseOk(ValueOf("Object", <<>>,
                                   MapInsert(key.v.str, val.v, rest.v.elems)),
                                   rest.next)
                          ELSE ParseFail

\* serde_json::from_str: one value, then only whitespace up to the end
from_str(s) ==
    LET r == Parse["value", s, 1, FALSE]
    IN  IF r.ok /\ SkipWs[s, r.next] = Len(s) + 1 THEN r ELSE ParseFail

\* Value::get with a string index: Some only for an object that has the key
get(v, key) ==
    IF v.kind = "Object" /\ \E n \in 1..Len(v.elems) : v.elems[n].key = key
    THEN [some |-> TRUE,
          v |-> v.elems[CHOOSE n \in 1..Len(v.elems) : v.elems[n].key = key].val]
    ELSE [some |-> FALSE, v |-> Null]

\* Value::as_str: Some only for a string
as_str(v) ==
    IF v.kind = "String" THEN [some |-> TRUE, s |-> v.str]
    ELSE [some |-> FALSE, s |-> <<>>]

\* ------------------------------------------------------------------------
\* Input lines
\* ------------------------------------------------------------------------

\* {"type":"A","x":1}
LineA1 ==
    <<"{", "\"", "t", "y", "p", "e", "\"", ":", "\"", "A", "\"", ",", "\"",
      "x", "\"", ":", "1", "}">>

\* {"type":"A","x":2}
LineA2 ==
    <<"{", "\"", "t", "y", "p", "e", "\"", ":", "\"", "A", "\"", ",", "\"",
      "x", "\"", ":", "2", "}">>

\* {"type":"B"}
LineB ==
    <<"{", "\"", "t", "y", "p", "e", "\"", ":", "\"", "B", "\"", "}">>

\* not json
LineNotJson ==
    <<"n", "o", "t", " ", "j", "s", "o", "n">>

\* {"x":1}
LineNoType ==
    <<"{", "\"", "x", "\"", ":", "1", "}">>

\* {"type":5}
LineTypeNumber ==
    <<"{", "\"", "t", "y", "p", "e", "\"", ":", "5", "}">>

\* {"type":null}
LineTypeNull ==
    <<"{", "\"", "t", "y", "p", "e", "\"", ":", "n", "u", "l", "l", "}">>

\* {"type":true}
LineTypeBool ==
    <<"{", "\"", "t", "y", "p", "e", "\"", ":", "t", "r", "u", "e", "}">>

\* {"type":["A"]}
LineTypeArray ==
    <<"{", "\"", "t", "y", "p", "e", "\"", ":", "[", "\"", "A", "\"", "]",
      "}">>

\* {"type":{"a":"A"}}
LineTypeObject ==
    <<"{", "\"", "t", "y", "p", "e", "\"", ":", "{", "\"", "a", "\"", ":",
      "\"", "A", "\"", "}", "}">>

\*  {"type": "A"} 
LinePadded ==
    <<" ", "{", "\"", "t", "y", "p", "e", "\"", ":", " ", "\"", "A", "\"",
      "}", " ">>

\* "type"
LineBareString ==
    <<"\"", "t", "y", "p", "e", "\"">>

\* ["type"]
LineArray ==
    <<"[", "\"", "t", "y", "p", "e", "\"", "]">>

\* {"type":5,"type":"B"}
LineDupKey ==
    <<"{", "\"", "t", "y", "p", "e", "\"", ":", "5", ",", "\"", "t", "y",
      "p", "e", "\"", ":", "\"", "B", "\"", "}">>

\* {"type":"B","type":5}
LineDupKeyRev ==
    <<"{", "\"", "t", "y", "p", "e", "\"", ":", "\"", "B", "\"", ",", "\"",
      "t", "y", "p", "e", "\"", ":", "5", "}">>

\* (the empty line)
LineEmpty ==
    <<>>

\* {"type":""}
LineEmptyGroup ==
    <<"{", "\"", "t", "y", "p", "e", "\"", ":", "\"", "\"", "}">>

\* {"type":"A"}x
LineTrailing ==
    <<"{", "\"", "t", "y", "p", "e", "\"", ":", "\"", "A", "\"", "}", "x">>

\* {"type":"a\"b"}
LineEscaped ==
    <<"{", "\"", "t", "y", "p", "e", "\"", ":", "\"", "a", "\\", "\"", "b",
      "\"", "}">>

\* {"x":{"type":"A"}}
LineNested ==
    <<"{", "\"", "x", "\"", ":", "{", "\"", "t", "y", "p", "e", "\"", ":",
      "\"", "A", "\"", "}", "}">>

\* {"type":"A"
LineUnclosed ==
    <<"{", "\"", "t", "y", "p", "e", "\"", ":", "\"", "A", "\"">>

\* {"type":"<U+00E9>"}
LineWide ==
    <<"{", "\"", "t", "y", "p", "e", "\"", ":", "\"", "U+00E9", "\"", "}">>

\* lines of which a file of up to MaxLines lines is made
FileLines ==
    {LineA1, LineA2, LineB, LineNotJson, LineTypeNumber, LinePadded, LineWide}

\* lines that are parsed as the only line of a file
SingleLines ==
    FileLines \cup
    {LineNoType, LineTypeNull, LineTypeBool, LineTypeArray, LineTypeObject,
     LineBareString, LineArray, LineDupKey, LineDupKeyRev, LineEmpty,
     LineEmptyGroup, LineTrailing, LineEscaped, LineNested, LineUnclosed}

\* what the file holds between two line breaks: a line of valid UTF-8, or
\* bytes that are not valid UTF-8
Utf8Line(l) == [valid |-> TRUE, text |-> l]

BadUtf8 == [valid |-> FALSE, text |-> <<>>]

FileItems == {Utf8Line(l) : l \in FileLines} \cup {BadUtf8}

Files ==
    UNION {[1..n -> FileItems] : n \in 0..MaxLines}
    \cup {<<Utf8Line(l)>> : l \in SingleLines}

\* ------------------------------------------------------------------------
\* State
\* ------------------------------------------------------------------------

VARIABLES
    fs,         \* what the FILE argument names: "missing", "denied" (exists,
                \* not readable), "dir" (a directory) or "regular"
    contents,   \* the items of a regular file
    pc,         \* position of the program
    pos,        \* number of items of the file the reader has consumed
    x,          \* the item that is passing through the iterator chain
    hash_map,   \* the HashMap that from_iter builds
    stdout,     \* what has been printed, in order
    yielded,    \* number of items that lines() has yielded
    folded      \* number of entries that from_iter has accumulated

vars == <<fs, contents, pc, pos, x, hash_map, stdout, yielded, folded>>

\* items of the iterator chain
None == [tag |-> "None", raw |-> <<>>, t |-> <<>>, size |-> 0]

Line(raw) == [tag |-> "Line", raw |-> raw, t |-> <<>>, size |-> 0]

IoError == [tag |-> "IoError", raw |-> <<>>, t |-> <<>>, size |-> 0]

\* main.rs:33-38
LogEntryStatistic(t, size) ==
    [tag |-> "LogEntryStatistic", raw |-> <<>>, t |-> t, size |-> size]

\* main.rs:57-60
ParseError(context) ==
    [tag |-> "ParseError", raw |-> context, t |-> <<>>, size |-> 0]

\* outputs
UsingLogfile == [kind |-> "using", context |-> <<>>, rows |-> <<>>]

ReadWarning == [kind |-> "read_warning", context |-> <<>>, rows |-> <<>>]

ParseWarning(context) ==
    [kind |-> "parse_warning", context |-> context, rows |-> <<>>]

StatisticsTable(rows) == [kind |-> "table", context |-> <<>>, rows |-> rows]

\* println!: the observer keeps the first MaxOut outputs
Println(out, e) == IF Len(out) < MaxOut THEN Append(out, e) ELSE out

\* the observer counts up to MaxYield
Count(n) == IF n < MaxYield THEN n + 1 ELSE n

\* ------------------------------------------------------------------------
\* parse_json and from_iter
\* ------------------------------------------------------------------------

\* parse_json that takes a "type" of any kind and prints it as the group
parse_json_any_type(raw) ==
    LET json == from_str(raw)
    IN  IF ~json.ok THEN ParseError(raw)
        ELSE LET field == get(json.v, GROUP_ID)
             IN  IF ~field.some THEN ParseError(raw)
                 ELSE LogEntryStatistic(field.v.str, str_len(raw))

\* parse_json that measures the group instead of the line
parse_json_group_size(raw) ==
    LET json == from_str(raw)
    IN  IF ~json.ok THEN ParseError(raw)
        ELSE LET field == get(json.v, GROUP_ID)
             IN  IF ~field.some THEN ParseError(raw)
                 ELSE LET s == as_str(field.v)
                      IN  IF ~s.some THEN ParseError(raw)
                          ELSE LogEntryStatistic(s.s, str_len(s.s))

\* main.rs:72-91
parse_json(raw) ==
    LET json == from_str(raw)
    IN  IF ~json.ok THEN ParseError(raw)
        ELSE LET field == get(json.v, GROUP_ID)
             IN  IF ~field.some THEN ParseError(raw)
                 ELSE LET s == as_str(field.v)
                      IN  IF ~s.some THEN ParseError(raw)
                          ELSE LogEntryStatistic(s.s, str_len(raw))

\* hash_map.insert(x.t, x.size): the last size replaces the total
AccumulateOverwrite(map, e) ==
    [k \in DOMAIN map \cup {e.t} |-> IF k = e.t THEN e.size ELSE map[k]]

\* main.rs:49, *hash_map.entry(x.t).or_insert(0) += x.size
Accumulate(map, e) ==
    [k \in DOMAIN map \cup {e.t} |->
        (IF k \in DOMAIN map THEN map[k] ELSE 0)
        + (IF k = e.t THEN e.size ELSE 0)]

RECURSIVE from_iter_onto(_, _)
from_iter_onto(map, entries) ==
    IF entries = <<>> THEN map
    ELSE from_iter_onto(Accumulate(map, Head(entries)), Tail(entries))

\* main.rs:43-53
from_iter(entries) == from_iter_onto(<<>>, entries)

\* ------------------------------------------------------------------------
\* The program
\* ------------------------------------------------------------------------

Init ==
    /\ fs \in {"missing", "denied", "dir", "regular"}
    /\ contents \in Files
    /\ fs # "regular" => contents = <<>>
    /\ pc = "canonicalize"
    /\ pos = 0
    /\ x = None
    /\ hash_map = <<>>
    /\ stdout = <<>>
    /\ yielded = 0
    /\ folded = 0

\* main.rs:153-156, canonicalize fails: the expect panics
CanonicalizeFail ==
    /\ pc = "canonicalize"
    /\ fs = "missing"
    /\ pc' = "panicked"
    /\ UNCHANGED <<fs, contents, pos, x, hash_map, stdout, yielded, folded>>

\* main.rs:153-157
CanonicalizeOk ==
    /\ pc = "canonicalize"
    /\ fs # "missing"
    /\ stdout' = Println(stdout, UsingLogfile)
    /\ pc' = "open"
    /\ UNCHANGED <<fs, contents, pos, x, hash_map, yielded, folded>>

\* File::open fails and the program goes on to print the statistics
OpenFailIgnored ==
    /\ pc = "open"
    /\ fs = "denied"
    /\ pc' = "print"
    /\ UNCHANGED <<fs, contents, pos, x, hash_map, stdout, yielded, folded>>

\* main.rs:159-162, File::open fails: the expect panics
OpenFail ==
    /\ pc = "open"
    /\ fs = "denied"
    /\ pc' = "panicked"
    /\ UNCHANGED <<fs, contents, pos, x, hash_map, stdout, yielded, folded>>

\* main.rs:159-164 and 108-109: the file is open, read_json_objects starts and
\* from_iter makes the empty map
OpenOk ==
    /\ pc = "open"
    /\ fs \in {"dir", "regular"}
    /\ hash_map' = <<>>
    /\ pc' = "lines"
    /\ UNCHANGED <<fs, contents, pos, x, stdout, yielded, folded>>

\* the reader hands out the line with its line break (read_line)
LinesNextOkKeepNewline ==
    /\ pc = "lines"
    /\ fs = "regular"
    /\ pos < Len(contents)
    /\ contents[pos + 1].valid
    /\ x' = Line(Append(contents[pos + 1].text, "\n"))
    /\ pos' = pos + 1
    /\ yielded' = Count(yielded)
    /\ pc' = "filter_read"
    /\ UNCHANGED <<fs, contents, hash_map, stdout, folded>>

\* main.rs:110, lines().next() yields a line
LinesNextOk ==
    /\ pc = "lines"
    /\ fs = "regular"
    /\ pos < Len(contents)
    /\ contents[pos + 1].valid
    /\ x' = Line(contents[pos + 1].text)
    /\ pos' = pos + 1
    /\ yielded' = Count(yielded)
    /\ pc' = "filter_read"
    /\ UNCHANGED <<fs, contents, hash_map, stdout, folded>>

\* main.rs:110, lines().next() yields an error: the bytes of a line that is
\* not UTF-8 are consumed, a read of a directory fails and consumes nothing
LinesNextErr ==
    /\ pc = "lines"
    /\ \/ /\ fs = "regular"
          /\ pos < Len(contents)
          /\ ~contents[pos + 1].valid
          /\ pos' = pos + 1
       \/ /\ fs = "dir"
          /\ pos' = pos
    /\ x' = IoError
    /\ yielded' = Count(yielded)
    /\ pc' = "filter_read"
    /\ UNCHANGED <<fs, contents, hash_map, stdout, folded>>

\* main.rs:110 and 123-125, lines().next() is None: collect() returns the map
LinesNextNone ==
    /\ pc = "lines"
    /\ fs = "regular"
    /\ pos = Len(contents)
    /\ x' = None
    /\ pc' = "print"
    /\ UNCHANGED <<fs, contents, pos, hash_map, stdout, yielded, folded>>

\* main.rs:112-115, the line was read
FilterReadOk ==
    /\ pc = "filter_read"
    /\ x.tag = "Line"
    /\ pc' = "parse"
    /\ UNCHANGED <<fs, contents, pos, x, hash_map, stdout, yielded, folded>>

\* main.rs:112-115, the read failed: warn and take the next item
FilterReadErr ==
    /\ pc = "filter_read"
    /\ x.tag = "IoError"
    /\ stdout' = Println(stdout, ReadWarning)
    /\ x' = None
    /\ pc' = "lines"
    /\ UNCHANGED <<fs, contents, pos, hash_map, yielded, folded>>

\* main.rs:116
MapParseJson ==
    /\ pc = "parse"
    /\ x' = parse_json(x.raw)
    /\ pc' = "filter_parse"
    /\ UNCHANGED <<fs, contents, pos, hash_map, stdout, yielded, folded>>

\* the parsed entry is dropped instead of passed on
FilterParseOkOmit ==
    /\ pc = "filter_parse"
    /\ x.tag = "LogEntryStatistic"
    /\ x' = None
    /\ pc' = "lines"
    /\ UNCHANGED <<fs, contents, pos, hash_map, stdout, yielded, folded>>

\* main.rs:118-121, the line was parsed
FilterParseOk ==
    /\ pc = "filter_parse"
    /\ x.tag = "LogEntryStatistic"
    /\ pc' = "for_each"
    /\ UNCHANGED <<fs, contents, pos, x, hash_map, stdout, yielded, folded>>

\* the rejected line gets an entry with total 0
FilterParseErrZeroEntry ==
    /\ pc = "filter_parse"
    /\ x.tag = "ParseError"
    /\ stdout' = Println(stdout, ParseWarning(x.raw))
    /\ hash_map' = Accumulate(hash_map, LogEntryStatistic(<<>>, 0))
    /\ x' = None
    /\ pc' = "lines"
    /\ UNCHANGED <<fs, contents, pos, yielded, folded>>

\* the rejected line is dropped without a warning (filter_map(Result::ok))
FilterParseErrSilent ==
    /\ pc = "filter_parse"
    /\ x.tag = "ParseError"
    /\ x' = None
    /\ pc' = "lines"
    /\ UNCHANGED <<fs, contents, pos, hash_map, stdout, yielded, folded>>

\* main.rs:118-121, the line was rejected: warn and take the next item
FilterParseErr ==
    /\ pc = "filter_parse"
    /\ x.tag = "ParseError"
    /\ stdout' = Println(stdout, ParseWarning(x.raw))
    /\ x' = None
    /\ pc' = "lines"
    /\ UNCHANGED <<fs, contents, pos, hash_map, yielded, folded>>

\* main.rs:46-50
ForEach ==
    /\ pc = "for_each"
    /\ hash_map' = Accumulate(hash_map, x)
    /\ folded' = Count(folded)
    /\ x' = None
    /\ pc' = "lines"
    /\ UNCHANGED <<fs, contents, pos, stdout, yielded>>

\* main.rs:135-147 and 166
PrintStatistics ==
    /\ pc = "print"
    /\ stdout' = Println(stdout, StatisticsTable(hash_map))
    /\ pc' = "done"
    /\ UNCHANGED <<fs, contents, pos, x, hash_map, yielded, folded>>

Next ==
    \/ CanonicalizeFail
    \/ CanonicalizeOk
    \/ OpenFail
    \/ OpenOk
    \/ LinesNextOk
    \/ LinesNextErr
    \/ LinesNextNone
    \/ FilterReadOk
    \/ FilterReadErr
    \/ MapParseJson
    \/ FilterParseOk
    \/ FilterParseErr
    \/ ForEach
    \/ PrintStatistics

Spec == Init /\ [][Next]_vars

\* the program is one thread that runs until it returns or panics
FairSpec == Init /\ [][Next]_vars /\ WF_vars(Next)

TypeOK ==
    /\ pc \in {"canonicalize", "open", "lines", "filter_read", "parse",
               "filter_parse", "for_each", "print", "done", "panicked"}
    /\ fs \in {"missing", "denied", "dir", "regular"}
    /\ pos \in 0..Len(contents)
    /\ yielded \in 0..MaxYield
    /\ folded \in 0..pos
    /\ Len(stdout) <= MaxOut
    /\ x.tag \in {"None", "Line", "IoError", "LogEntryStatistic", "ParseError"}

\* ------------------------------------------------------------------------
\* Properties
\* ------------------------------------------------------------------------

\* no item is passing through the iterator chain
Settled == pc \in {"lines", "print", "done"}

\* an item is passing through the iterator chain
InFlight == pc \in {"filter_read", "parse", "filter_parse", "for_each"}

\* the map has been returned to main
Returned == pc \in {"print", "done"}

\* item i of the file is a line that parse_json accepts
Accepted(i) ==
    /\ contents[i].valid
    /\ parse_json(contents[i].text).tag = "LogEntryStatistic"

GroupOf(i) == parse_json(contents[i].text).t

\* bytes of a line: one per character and one more per two-byte character
ByteCount(l) == Len(l) + Cardinality({i \in 1..Len(l) : l[i] = "U+00E9"})

RECURSIVE SumBytes(_)
\* sum of the byte counts of the lines whose indices are in S
SumBytes(S) ==
    IF S = {} THEN 0
    ELSE LET i == CHOOSE j \in S : TRUE
         IN  ByteCount(contents[i].text) + SumBytes(S \ {i})

IsWarning(e) == e.kind \in {"read_warning", "parse_warning"}

IsTable(e) == e.kind = "table"

Warnings == SelectSeq(stdout, IsWarning)

NumWarnings == Len(Warnings)

NumTables == Len(SelectSeq(stdout, IsTable))

\* the item in flight failed to read, or is a line that parse_json rejects
FailingItem ==
    /\ InFlight
    /\ \/ x.tag \in {"IoError", "ParseError"}
       \/ x.tag = "Line" /\ parse_json(x.raw).tag = "ParseError"

\* C1: whenever no item is in flight, the keys of the map are exactly the
\* groups of the accepted lines among the lines consumed, and the total of
\* each group is the sum of the byte sizes of exactly those lines; this
\* holds in particular of the map that read_json_objects returns.
SumConservation ==
    Settled =>
        /\ DOMAIN hash_map = {GroupOf(i) : i \in {j \in 1..pos : Accepted(j)}}
        /\ \A g \in DOMAIN hash_map :
               hash_map[g] =
                   SumBytes({i \in 1..pos : Accepted(i) /\ GroupOf(i) = g})

SumConservationWitness ==
    /\ pc = "done"
    /\ Cardinality(DOMAIN hash_map) = 2
    /\ \E g \in DOMAIN hash_map : hash_map[g] = 36
    /\ \E i \in 1..pos : Accepted(i) /\ hash_map[GroupOf(i)] = 12

\* C2: no step taken while a failing item (a failed read or a rejected line)
\* is in flight changes the map, and a map returned for a file without an
\* accepted line is empty.
FailuresNotAggregated ==
    /\ [][FailingItem => hash_map' = hash_map]_vars
    /\ []((Returned /\ \A i \in 1..Len(contents) : ~Accepted(i))
             => DOMAIN hash_map = {})

FailuresNotAggregatedWitness ==
    /\ pc = "lines"
    /\ DOMAIN hash_map # {}
    /\ NumWarnings = 2
    /\ stdout[Len(stdout)].kind = "parse_warning"
    /\ \E i \in 1..Len(stdout) : stdout[i].kind = "read_warning"

AcceptedEntries ==
    LET idx == SelectSeq([i \in 1..Len(contents) |-> i], LAMBDA i : Accepted(i))
    IN  [k \in 1..Len(idx) |-> parse_json(contents[idx[k]].text)]

\* C4: folding the accepted entries of the file in any order gives the map
\* that the program built by folding them in the order of the file.
OrderIndependence ==
    Returned =>
        LET entries == AcceptedEntries
        IN  \A p \in Permutations(1..Len(entries)) :
                from_iter([k \in 1..Len(entries) |-> entries[p[k]]]) = hash_map

OrderIndependenceWitness ==
    /\ pc = "done"
    /\ Len(AcceptedEntries) = 3
    /\ Cardinality(DOMAIN hash_map) = 2
    /\ \E i, j \in 1..3 :
           /\ AcceptedEntries[i].t = AcceptedEntries[j].t
           /\ AcceptedEntries[i].size # AcceptedEntries[j].size

\* the lines of SingleLines that are an object with a string under "type"
WellFormedLines ==
    {LineA1, LineA2, LineB, LinePadded, LineWide, LineDupKey, LineEmptyGroup,
     LineEscaped}

\* C5: parse_json returns an entry exactly when the line decodes, the decoded
\* value has the key "type" and the value under it is a string; otherwise it
\* returns ParseError with the raw line as context, the same for a "type"
\* that is a number, object, array, boolean or null as for a missing "type".
ParseJsonContract ==
    pc = "filter_parse" =>
        LET raw == contents[pos].text
            json == from_str(raw)
            field == get(json.v, GROUP_ID)
        IN  /\ x.tag = "LogEntryStatistic"
                   <=> (json.ok /\ field.some /\ field.v.kind = "String")
            /\ x.tag = "LogEntryStatistic" <=> raw \in WellFormedLines
            /\ x.tag # "LogEntryStatistic" => x = ParseError(raw)
            /\ (/\ json.ok
                /\ field.some
                /\ field.v.kind \in {"Number", "Object", "Array", "Bool", "Null"})
                   => x = ParseError(raw)

ParseJsonContractWitness ==
    /\ pc = "filter_parse"
    /\ contents[pos].text = LineTypeArray
    /\ get(from_str(LineTypeArray).v, GROUP_ID).v.kind = "Array"
    /\ x = ParseError(LineTypeArray)

\* C6: the size of an entry is the number of bytes of the whole raw line, and
\* its group is the string stored under "type".
SizeIsLineLength ==
    (pc = "filter_parse" /\ x.tag = "LogEntryStatistic") =>
        LET raw == contents[pos].text
        IN  /\ x.size = ByteCount(raw)
            /\ x.t = get(from_str(raw).v, GROUP_ID).v.str
            /\ raw = LinePadded => x.size = 15 /\ x.t = <<"A">>
            /\ raw = LineEscaped => x.size = 15 /\ x.t = <<"a", "\"", "b">>

SizeIsLineLengthWitness ==
    /\ pc = "filter_parse"
    /\ contents[pos].text = LineWide
    /\ x = LogEntryStatistic(<<"U+00E9">>, 13)

ScenarioA == <<Utf8Line(LineA1), Utf8Line(LineA2), Utf8Line(LineB)>>

Totals(a, b) == [g \in {<<"A">>, <<"B">>} |-> IF g = <<"A">> THEN a ELSE b]

\* C7 as stated: the three lines of scenario A give A 36 and B 13 and no
\* warning.
ScenarioAOriginal ==
    (contents = ScenarioA /\ pc = "done") =>
        hash_map = Totals(36, 13) /\ NumWarnings = 0

\* C7: the three lines of scenario A give exactly the groups A with 36 and B
\* with 12 (the line {"type":"B"} has 12 bytes), the table shows them, and
\* no warning is printed.
ScenarioAAmended ==
    (contents = ScenarioA /\ pc = "done") =>
        /\ hash_map = Totals(36, 12)
        /\ stdout = <<UsingLogfile, StatisticsTable(Totals(36, 12))>>

ScenarioAWitness == contents = ScenarioA /\ pc = "done"

ReadFailuresTerminate == (pc = "lines") ~> Returned

RECURSIVE ExpectedWarnings(_)
\* the warnings for the first n items of the file, in the order of the file
ExpectedWarnings(n) ==
    IF n = 0 THEN <<>>
    ELSE ExpectedWarnings(n - 1) \o
         (IF ~contents[n].valid THEN <<ReadWarning>>
          ELSE IF ~Accepted(n) THEN <<ParseWarning(contents[n].text)>>
          ELSE <<>>)

\* one line at a time, warnings in the order of the lines, the table last
OutputOrder ==
    /\ (InFlight /\ yielded < MaxYield) => NumWarnings + folded = yielded - 1
    /\ (Settled /\ yielded < MaxYield) => NumWarnings + folded = yielded
    /\ (fs = "regular" /\ Settled) => Warnings = ExpectedWarnings(pos)
    /\ (fs = "regular" /\ InFlight) => Warnings = ExpectedWarnings(pos - 1)
    /\ \A i \in 1..Len(stdout) :
           IsTable(stdout[i]) =>
               /\ i = Len(stdout)
               /\ pc = "done"
               /\ pos = Len(contents)
               /\ stdout[i].rows = hash_map
    /\ pc = "done" => NumTables = 1

\* C10: the lines are handled one at a time, the warnings come in the order
\* of the lines and before the table, and every run that opened the file
\* prints the table exactly once, after the end of the input.
OutputOrdering == []OutputOrder /\ ((pc = "lines") ~> (NumTables = 1))

====
